---- MODULE Spec2Model ----
(***************************************************************************)
(* Hybrid MPI + OpenMP computation of Pi with the Chudnovsky series.       *)
(*                                                                         *)
(* calculate_pi_gmp (sources/gmp/pi_calculator.c) is run by num_procs      *)
(* processes with the same arguments; it validates them and runs the       *)
(* selected series.  chudnovsky_algorithm_gmp                              *)
(* (sources/gmp/algorithms/chudnovsky.c) is the Chudnovsky series with the *)
(* iterations split in blocks among the processes and cyclically among     *)
(* the threads of a process (selector 3 of the driver).                    *)
(*                                                                         *)
(* Arithmetic.  The mpf values are modelled without rounding, in a         *)
(* canonical symbolic form, because the numbers leave the machine          *)
(* integers after two terms:                                               *)
(*   - a positive rational (dep_a) is the vector of the exponents of its   *)
(*     prime factorisation;                                                *)
(*   - a power of -C (c, dep_b) is its exponent;                           *)
(*   - an integer built from A and B (dep_c) is a linear form;             *)
(*   - a term dep_a * dep_c / dep_b is the triple of these;                *)
(*   - a sum of terms (the partial sums and pi) is the bag of its terms.   *)
(* Two values of the same kind with the same form are the same number.     *)
(*                                                                         *)
(* OpenMP.  The team of the parallel region has num_threads threads        *)
(* (omp_set_num_threads, dynamic adjustment off).  The `parallel for'      *)
(* nested inside the region is run with nested parallelism at its default, *)
(* disabled: its team is the encountering thread alone, which runs every   *)
(* iteration of its loop in order.                                         *)
(***************************************************************************)
EXTENDS Bags, FiniteSets, Integers, Sequences, TLC

(***************************************************************************)
(* Bounds of the model.                                                    *)
(***************************************************************************)
MaxProcs == 3
MaxThreads == 4
MaxWorkers == 4
MaxIterations == 5

(***************************************************************************)
(* Constants of the program.                                               *)
(***************************************************************************)
A == 13591409
B == 545140134
C == 640320
D == 426880
E == 10005

IterationsPerDigits == 14
HalfWord == 2 ^ 16

(***************************************************************************)
(* Inputs.  The precisions are -1, 0 and 1 and, for every iteration        *)
(* count up to MaxIterations, the largest precision that gives it.         *)
(***************************************************************************)
Precisions ==
    {-1, 0, 1} \cup {IterationsPerDigits * k : k \in 1 .. MaxIterations}

Algorithms == -1 .. 4

Set(f, k, v) == (k :> v) @@ f

(***************************************************************************)
(* C integer arithmetic.                                                   *)
(***************************************************************************)
\* int / int: the quotient truncated towards zero
CDiv(x, y) ==
    IF x >= 0 THEN x \div y ELSE -((-x) \div y)

\* exit(status): the status the parent sees is status & 0377
ExitStatus(status) == status % 256

\* B * num_threads in int arithmetic.  The product is formed in 16 bit
\* halves, hi * 2^16 + lo: it does not fit an int when hi reaches 2^15.
\* wraps is how many times 2^32 is lost by keeping the low 32 bits as a
\* two's complement int; it is 0 exactly when the int product is the
\* mathematical one.  negative says that the int kept is below zero.
IntMulB(n) ==
    LET bh == B \div HalfWord
        bl == B % HalfWord
        lo == (bl * n) % HalfWord
        hi == bh * n + ((bl * n) \div HalfWord)
        top == hi % HalfWord
    IN  [ times |-> n,
          negative |-> top >= HalfWord \div 2,
          wraps |-> (hi \div HalfWord) + (IF top >= HalfWord \div 2 THEN 1 ELSE 0) ]

(***************************************************************************)
(* Positive rationals: the exponents of the prime factorisation.           *)
(***************************************************************************)
\* No thread starts at or beyond MaxIndex: its first index is below
\* block_start + num_threads, and block_start below num_iterations + num_procs.
MaxIndex == MaxIterations + MaxProcs + MaxThreads
\* The integers factorised are the 12 i + 10 of the updates and the factors
\* of (6 n)!, n a first index.
MaxFactor ==
    IF 12 * MaxIterations + 10 > 6 * MaxIndex
    THEN 12 * MaxIterations + 10 ELSE 6 * MaxIndex

IsPrime(n) == n > 1 /\ \A d \in 2 .. (n - 1) : n % d # 0
Primes == {n \in 2 .. MaxFactor : IsPrime(n)}

RECURSIVE Multiplicity(_, _)
Multiplicity(p, n) ==
    IF n % p = 0 THEN 1 + Multiplicity(p, n \div p) ELSE 0

\* the factorisations of 1 .. MaxFactor, computed once
Factorisation == [n \in 1 .. MaxFactor |-> [p \in Primes |-> Multiplicity(p, n)]]

\* mpf_set_ui, mpf_set_z: the positive integer n
QInt(n) == Factorisation[n]
\* mpf_mul, mpz_mul
QMul(x, y) == [p \in Primes |-> x[p] + y[p]]
\* mpf_div
QDiv(x, y) == [p \in Primes |-> x[p] - y[p]]
\* mpf_pow_ui, mpz_pow_ui
QPow(x, k) == [p \in Primes |-> x[p] * k]

\* the exponent of the prime p in n!, by Legendre's formula
RECURSIVE Legendre(_, _)
Legendre(p, n) == IF n < p THEN 0 ELSE (n \div p) + Legendre(p, n \div p)

\* the factorials of 0 .. 6 * MaxIndex, computed once
Factorials == [n \in 0 .. (6 * MaxIndex) |-> [p \in Primes |-> Legendre(p, n)]]

\* mpz_fac_ui
Factorial(n) == Factorials[n]

(***************************************************************************)
(* Integers built from A and B: a * A + b * B - w32 * 2^32 + w64 * 2^64.   *)
(***************************************************************************)
Lin(a, b, w32, w64) == [a |-> a, b |-> b, w32 |-> w32, w64 |-> w64]
\* mpf_mul_ui
LinMul(x, n) == Lin(x.a * n, x.b * n, x.w32 * n, x.w64 * n)
\* mpf_add_ui
LinAdd(x, y) == Lin(x.a + y.a, x.b + y.b, x.w32 + y.w32, x.w64 + y.w64)

\* The unsigned long that mpf_add_ui receives for the int B * num_threads.
\* When the int product overflows the behaviour is undefined; the build
\* either keeps the low 32 bits and sign-extends them ("wrap") or forms
\* the product in a 64 bit register ("wide").
StrideIncrement(mode, n) ==
    LET m == IntMulB(n)
    IN  IF mode = "wide" \/ m.wraps = 0
        THEN Lin(0, m.times, 0, 0)
        ELSE Lin(0, m.times, m.wraps, IF m.negative THEN 1 ELSE 0)

IntMulModes(n) ==
    IF IntMulB(n).wraps = 0 THEN {"exact"} ELSE {"wrap", "wide"}

(***************************************************************************)
(* Sums of terms.                                                          *)
(***************************************************************************)
Zero == EmptyBag
\* mpf_add on sums
Sum(x, y) == x (+) y

\* aux of chudnovsky_iteration_gmp: dep_a * dep_c / dep_b
TermOf(ratio, power, linear) == [a |-> ratio, b |-> power, c |-> linear]

\* An iteration of the Chudnovsky formula
chudnovsky_iteration_gmp(pi_, dep_a_, dep_b_, dep_c_) ==
    Sum(pi_, SetToBag({TermOf(dep_a_, dep_b_, dep_c_)}))

\* The first value of dep_a of a thread
init_dep_a_gmp(n) ==
    LET factorial_n == QPow(Factorial(n), 3)
        divisor == QMul(Factorial(3 * n), factorial_n)
        dividend == Factorial(6 * n)
    IN  QDiv(dividend, divisor)

(***************************************************************************)
(* State.                                                                  *)
(*                                                                         *)
(* The arguments are the same in every process.  A variable of a process   *)
(* is a function of its rank, a variable of a thread a function of         *)
(* <<rank, thread_id>>; a C variable is in the domain from the line that   *)
(* sets it first.                                                          *)
(***************************************************************************)
VARIABLES
    num_procs,          \* MPI processes of the run
    num_threads,        \* threads of each process
    precision,          \* decimals asked for
    algorithm,          \* selector of the series
    int_mul,            \* what the build does with the int B * num_threads
    phase,              \* where each process is
    exit_status,        \* status of exit(), of the processes that exited
    out,                \* what each process printed, in order
    num_iterations,
    pi,                 \* pi of calculate_pi_gmp
    block_start,
    block_end,
    c,                  \* (-C)^(3 * num_threads), as the exponent of -C
    local_proc_pi,
    tpc,                \* where each thread is
    i,
    dep_a,
    dep_b,
    dep_c,
    local_thread_pi,
    visited,            \* the values i has taken in the loop body, in order
    critical,           \* the thread inside the critical construct, or -1
    fold,               \* the sum mpf_add of the critical construct has formed
    sendbuffer,
    recbuffer,
    unpacked,           \* the root is past unpack_gmp
    reduce              \* the partial results of MPI_Reduce

vars ==
    << num_procs, num_threads, precision, algorithm, int_mul, phase,
       exit_status, out, num_iterations, pi, block_start, block_end, c,
       local_proc_pi, tpc, i, dep_a, dep_b, dep_c, local_thread_pi, visited,
       critical, fold, sendbuffer, recbuffer, unpacked, reduce >>

procVars ==
    << num_iterations, block_start, block_end, c, local_proc_pi >>
threadVars ==
    << tpc, i, dep_a, dep_b, dep_c, local_thread_pi, visited, critical, fold >>
reduceVars ==
    << sendbuffer, recbuffer, unpacked, reduce >>
argVars ==
    << num_procs, num_threads, precision, algorithm, int_mul >>

Procs == 0 .. (num_procs - 1)
Threads == 0 .. (num_threads - 1)
NoFunction == [x \in {} |-> 0]

\* mpf_init_set_ui(pi, 0); a value of pi is e / sum once e is set (root > 0)
NoScale == [root |-> 0, times |-> 0]
PiValue(sum, e) == [sum |-> sum, e |-> e]

Line(kind, n) == [kind |-> kind, n |-> n]
Output(p, lines) == [out EXCEPT ![p] = @ \o lines]

(***************************************************************************)
(* Initial state: the processes are at the entry of calculate_pi_gmp.      *)
(***************************************************************************)
Init ==
    /\ num_procs \in 1 .. MaxProcs
    /\ num_threads \in 1 .. MaxThreads
    /\ num_procs * num_threads <= MaxWorkers
    /\ precision \in Precisions
    /\ algorithm \in Algorithms
    /\ int_mul \in IntMulModes(num_threads)
    /\ phase = [p \in Procs |-> "Uninitialized"]
    /\ out = [p \in Procs |-> << >>]
    /\ exit_status = NoFunction
    /\ num_iterations = NoFunction
    /\ pi = NoFunction
    /\ block_start = NoFunction
    /\ block_end = NoFunction
    /\ c = NoFunction
    /\ local_proc_pi = NoFunction
    /\ tpc = NoFunction
    /\ i = NoFunction
    /\ dep_a = NoFunction
    /\ dep_b = NoFunction
    /\ dep_c = NoFunction
    /\ local_thread_pi = NoFunction
    /\ visited = NoFunction
    /\ critical = NoFunction
    /\ fold = NoFunction
    /\ sendbuffer = NoFunction
    /\ recbuffer = NoFunction
    /\ unpacked = FALSE
    /\ reduce = {}

(***************************************************************************)
(* calculate_pi_gmp: the iterations of each series and the validation.     *)
(***************************************************************************)
Supported == 0 .. 3

\* the switch of calculate_pi_gmp: num_iterations of the selected series
IterationsOf(alg, prec) ==
    CASE alg = 0 -> CDiv(prec * 84, 100)
      [] alg = 1 -> CDiv(prec, 3)
      [] OTHER -> CDiv(prec + IterationsPerDigits - 1, IterationsPerDigits)

\* line 19
PrecisionFails(prec) == prec <= 0
\* line 24
IterationsFailThreads(n, threads, procs) == n < threads
IterationsFailOrEmptyBlock(n, threads, procs) ==
    \/ n < threads * procs
    \/ (procs - 1) * ((n + procs - 1) \div procs) >= n
IterationsFail(n, threads, procs) == n < threads * procs

\* check_errors_gmp: the check that stops the process, if any
check_errors_gmp(procs, prec, n, threads) ==
    IF PrecisionFails(prec) THEN "precision"
    ELSE IF IterationsFail(n, threads, procs) THEN "iterations"
    ELSE "ok"

Validation ==
    check_errors_gmp(num_procs, precision,
                     IterationsOf(algorithm, precision), num_threads)

\* lines 49-52: pi is initialised by the root alone
InitPi(p) == IF p = 0 THEN Set(pi, p, PiValue(Zero, NoScale)) ELSE pi

\* MPI_Finalize(); exit(-1);
AbortWithSuccess(p) ==
    /\ phase' = [phase EXCEPT ![p] = "Exited"]
    /\ exit_status' = Set(exit_status, p, ExitStatus(0))
Abort(p) ==
    /\ phase' = [phase EXCEPT ![p] = "Exited"]
    /\ exit_status' = Set(exit_status, p, ExitStatus(-1))

\* check_errors_gmp, first check: precision <= 0
PrecisionError(p) ==
    /\ phase[p] = "Uninitialized"
    /\ algorithm \in Supported
    /\ Validation = "precision"
    /\ pi' = InitPi(p)
    /\ num_iterations' = Set(num_iterations, p, IterationsOf(algorithm, precision))
    /\ out' = IF p = 0 THEN Output(p, << Line("precision_error", precision) >>)
                       ELSE out
    /\ Abort(p)
    /\ UNCHANGED << argVars, block_start, block_end, c, local_proc_pi,
                    threadVars, reduceVars >>

\* check_errors_gmp, second check: too few iterations
IterationsError(p) ==
    /\ phase[p] = "Uninitialized"
    /\ algorithm \in Supported
    /\ Validation = "iterations"
    /\ pi' = InitPi(p)
    /\ num_iterations' = Set(num_iterations, p, IterationsOf(algorithm, precision))
    /\ out' = IF p = 0
              THEN Output(p, << Line("iterations_error", num_threads),
                                Line("iterations_hint", num_procs) >>)
              ELSE out
    /\ Abort(p)
    /\ UNCHANGED << argVars, block_start, block_end, c, local_proc_pi,
                    threadVars, reduceVars >>

\* the default branch of the switch
UnsupportedAlgorithm(p) ==
    /\ phase[p] = "Uninitialized"
    /\ algorithm \notin Supported
    /\ pi' = InitPi(p)
    /\ out' = IF p = 0
              THEN Output(p, << Line("algorithm_error", algorithm),
                                Line("algorithm_0", 0), Line("algorithm_1", 1),
                                Line("algorithm_2", 2), Line("blank", 0) >>)
              ELSE out
    /\ Abort(p)
    /\ UNCHANGED << argVars, procVars, threadVars, reduceVars >>

\* The series whose code is not among the sources (selectors 0, 1 and 2):
\* the call returns; the value it leaves in pi is not modelled.
OtherSeries(p) ==
    /\ phase[p] = "Uninitialized"
    /\ algorithm \in 0 .. 2
    /\ Validation = "ok"
    /\ pi' = InitPi(p)
    /\ num_iterations' = Set(num_iterations, p, IterationsOf(algorithm, precision))
    /\ phase' = [phase EXCEPT ![p] = "Done"]
    /\ UNCHANGED << argVars, exit_status, out, block_start, block_end, c,
                    local_proc_pi, threadVars, reduceVars >>

(***************************************************************************)
(* chudnovsky_algorithm_gmp.                                               *)
(***************************************************************************)
\* line 94
BlockSizeFloor(n, procs) == n \div procs
BlockSize(n, procs) == (n + procs - 1) \div procs
\* line 95
BlockStart(n, procs, p) == p * BlockSize(n, procs)
\* lines 96-97
BlockEnd(n, procs, p) ==
    LET end == BlockStart(n, procs, p) + BlockSize(n, procs)
    IN  IF end > n THEN n ELSE end

\* lines 101-103: c = (-C)^(3 * num_threads), as the exponent of -C
StrideExponent(threads) == 3 * threads

\* lines 94-103, after the validation of calculate_pi_gmp has passed
BlockAssign(p) ==
    /\ phase[p] = "Uninitialized"
    /\ algorithm = 3
    /\ Validation = "ok"
    /\ pi' = InitPi(p)
    /\ LET n == IterationsOf(algorithm, precision)
       IN  /\ num_iterations' = Set(num_iterations, p, n)
           /\ block_start' = Set(block_start, p, BlockStart(n, num_procs, p))
           /\ block_end' = Set(block_end, p, BlockEnd(n, num_procs, p))
    /\ local_proc_pi' = Set(local_proc_pi, p, Zero)
    /\ c' = Set(c, p, StrideExponent(num_threads))
    /\ phase' = [phase EXCEPT ![p] = "BlockAssigned"]
    /\ UNCHANGED << argVars, exit_status, out, threadVars, reduceVars >>

\* lines 106-108: the team of the parallel region
ForkThreads(p) ==
    /\ phase[p] = "BlockAssigned"
    /\ phase' = [phase EXCEPT ![p] = "ThreadsRunning"]
    /\ tpc' = [w \in {<< p, t >> : t \in Threads} |-> "start"] @@ tpc
    /\ critical' = Set(critical, p, -1)
    /\ UNCHANGED << argVars, exit_status, out, pi, procVars, i, dep_a, dep_b,
                    dep_c, local_thread_pi, visited, fold, reduceVars >>

\* line 118: dep_b = c ^ first, on the exponents of -C
InitDepB(stride, first) == stride * first

\* lines 119-121: dep_c = B * first + A
InitDepC(first) == LinAdd(LinMul(Lin(0, 1, 0, 0), first), Lin(1, 0, 0, 0))

\* lines 113-122 and the initialisation of the loop, line 126
ThreadInit(p, t) ==
    LET w == << p, t >>
        first == block_start[p] + t
    IN  /\ w \in DOMAIN tpc
        /\ tpc[w] = "start"
        /\ local_thread_pi' = Set(local_thread_pi, w, Zero)
        /\ dep_a' = Set(dep_a, w, init_dep_a_gmp(first))
        /\ dep_b' = Set(dep_b, w, InitDepB(c[p], first))
        /\ dep_c' = Set(dep_c, w, InitDepC(first))
        /\ i' = Set(i, w, first)
        /\ visited' = Set(visited, w, << >>)
        /\ tpc' = [tpc EXCEPT ![w] = "loop"]
        /\ UNCHANGED << argVars, phase, exit_status, out, pi, procVars,
                        critical, fold, reduceVars >>

\* lines 137-145: dep_a after the iteration n
UpdateDepA(a, n) ==
    LET factor_a == 12 * n
        dep_a_dividend ==
            QMul(QMul(QMul(QInt(factor_a + 10), QInt(factor_a + 6)),
                      QInt(factor_a + 2)), a)
        dep_a_divisor == QPow(QInt(n + 1), 3)
    IN  QDiv(dep_a_dividend, dep_a_divisor)

\* line 148: dep_b * c, on the exponents of -C
UpdateDepB(b, stride) == b + stride

\* line 151
UpdateDepCByOne(x, mode, threads) == LinAdd(x, Lin(0, 1, 0, 0))
UpdateDepC(x, mode, threads) == LinAdd(x, StrideIncrement(mode, threads))

\* line 126: the step and the test of the loop
NextIndex(n, threads) == n + threads
LoopRunsToEnd(n, end) == n <= end
LoopRunsAt(n, end) == n < end

\* lines 126-152: one iteration of the loop
IterateShared(p, t) ==
    LET w == << p, t >>
        team == {v \in DOMAIN dep_a : v[1] = p}
    IN  /\ w \in DOMAIN tpc
        /\ tpc[w] = "loop"
        /\ LoopRunsAt(i[w], block_end[p])
        /\ out' = IF t = 0
                  THEN Output(p, << Line("iteration", i[w]), Line("dep_a", i[w]),
                                    Line("dep_b", i[w]), Line("dep_c", i[w]) >>)
                  ELSE out
        /\ local_thread_pi' =
               [local_thread_pi EXCEPT
                   ![w] = chudnovsky_iteration_gmp(@, dep_a[w], dep_b[w], dep_c[w])]
        /\ visited' = [visited EXCEPT ![w] = Append(@, i[w])]
        /\ dep_a' = [v \in DOMAIN dep_a |->
                        IF v \in team THEN UpdateDepA(dep_a[w], i[w]) ELSE dep_a[v]]
        /\ dep_b' = [v \in DOMAIN dep_b |->
                        IF v \in team THEN UpdateDepB(dep_b[w], c[p]) ELSE dep_b[v]]
        /\ dep_c' = [v \in DOMAIN dep_c |->
                        IF v \in team THEN UpdateDepC(dep_c[w], int_mul, num_threads)
                        ELSE dep_c[v]]
        /\ i' = [i EXCEPT ![w] = NextIndex(@, num_threads)]
        /\ UNCHANGED << argVars, phase, exit_status, pi, procVars, tpc,
                        critical, fold, reduceVars >>
Iterate(p, t) ==
    LET w == << p, t >>
    IN  /\ w \in DOMAIN tpc
        /\ tpc[w] = "loop"
        /\ LoopRunsAt(i[w], block_end[p])
        /\ out' = IF t = 0
                  THEN Output(p, << Line("iteration", i[w]), Line("dep_a", i[w]),
                                    Line("dep_b", i[w]), Line("dep_c", i[w]) >>)
                  ELSE out
        /\ local_thread_pi' =
               [local_thread_pi EXCEPT
                   ![w] = chudnovsky_iteration_gmp(@, dep_a[w], dep_b[w], dep_c[w])]
        /\ visited' = [visited EXCEPT ![w] = Append(@, i[w])]
        /\ dep_a' = [dep_a EXCEPT ![w] = UpdateDepA(@, i[w])]
        /\ dep_b' = [dep_b EXCEPT ![w] = UpdateDepB(@, c[p])]
        /\ dep_c' = [dep_c EXCEPT ![w] = UpdateDepC(@, int_mul, num_threads)]
        /\ i' = [i EXCEPT ![w] = NextIndex(@, num_threads)]
        /\ UNCHANGED << argVars, phase, exit_status, pi, procVars, tpc,
                        critical, fold, reduceVars >>

\* line 155: no thread is inside the critical construct
CriticalNotHeld(p) == TRUE
CriticalFree(p) == critical[p] = -1

\* lines 155-156: the loop is over, the thread enters the critical construct
\* and mpf_add forms local_proc_pi + local_thread_pi
EnterCritical(p, t) ==
    LET w == << p, t >>
    IN  /\ w \in DOMAIN tpc
        /\ tpc[w] = "loop"
        /\ ~LoopRunsAt(i[w], block_end[p])
        /\ CriticalFree(p)
        /\ critical' = [critical EXCEPT ![p] = t]
        /\ fold' = Set(fold, w, Sum(local_proc_pi[p], local_thread_pi[w]))
        /\ tpc' = [tpc EXCEPT ![w] = "critical"]
        /\ UNCHANGED << argVars, phase, exit_status, out, pi, procVars, i,
                        dep_a, dep_b, dep_c, local_thread_pi, visited,
                        reduceVars >>

\* lines 156-159: mpf_add stores the sum, the thread leaves the critical
\* construct and clears its variables
Fold(p, t) ==
    LET w == << p, t >>
    IN  /\ w \in DOMAIN tpc
        /\ tpc[w] = "critical"
        /\ local_proc_pi' = [local_proc_pi EXCEPT ![p] = fold[w]]
        /\ critical' = [critical EXCEPT ![p] = -1]
        /\ tpc' = [tpc EXCEPT ![w] = "done"]
        /\ UNCHANGED << argVars, phase, exit_status, out, pi, num_iterations,
                        block_start, block_end, c, i, dep_a, dep_b, dep_c,
                        local_thread_pi, visited, fold, reduceVars >>

\* line 160: the end of the parallel region, reached by every thread
JoinOnMaster(p) ==
    /\ phase[p] = "ThreadsRunning"
    /\ tpc[<< p, 0 >>] = "done"
    /\ phase' = [phase EXCEPT ![p] = "LocalReduced"]
    /\ UNCHANGED << argVars, exit_status, out, pi, procVars, threadVars,
                    reduceVars >>
Join(p) ==
    /\ phase[p] = "ThreadsRunning"
    /\ \A t \in Threads : tpc[<< p, t >>] = "done"
    /\ phase' = [phase EXCEPT ![p] = "LocalReduced"]
    /\ UNCHANGED << argVars, exit_status, out, pi, procVars, threadVars,
                    reduceVars >>

(***************************************************************************)
(* The reduction.  pack_gmp, unpack_gmp and add_gmp are declared in        *)
(* mpi_operations.h; a packed value is the value in a buffer, and add_gmp  *)
(* adds two packed values.  add_op is created as not commutative:          *)
(* MPI_Reduce combines the buffers in the order of the ranks, grouped as   *)
(* it likes, so a partial result covers the ranks lo .. hi.                *)
(***************************************************************************)
pack_gmp(x) == [packed |-> x]
unpack_gmp(buffer) == buffer.packed
add_gmp(x, y) == pack_gmp(Sum(unpack_gmp(x), unpack_gmp(y)))

Partial(lo, hi, buffer) == [lo |-> lo, hi |-> hi, buffer |-> buffer]

\* lines 163-175: local_proc_pi is packed and the process enters MPI_Reduce
ReduceCallUnlessEmpty(p) ==
    /\ phase[p] = "LocalReduced"
    /\ IF block_start[p] >= block_end[p]
       THEN /\ phase' = [phase EXCEPT ![p] = "Done"]
            /\ UNCHANGED << sendbuffer, reduce >>
       ELSE /\ sendbuffer' = Set(sendbuffer, p, pack_gmp(local_proc_pi[p]))
            /\ reduce' = reduce \cup {Partial(p, p, pack_gmp(local_proc_pi[p]))}
            /\ phase' = [phase EXCEPT ![p] = "AwaitingCollective"]
    /\ UNCHANGED << argVars, exit_status, out, pi, procVars, threadVars,
                    recbuffer, unpacked >>
ReduceCall(p) ==
    /\ phase[p] = "LocalReduced"
    /\ sendbuffer' = Set(sendbuffer, p, pack_gmp(local_proc_pi[p]))
    /\ reduce' = reduce \cup {Partial(p, p, pack_gmp(local_proc_pi[p]))}
    /\ phase' = [phase EXCEPT ![p] = "AwaitingCollective"]
    /\ UNCHANGED << argVars, exit_status, out, pi, procVars, threadVars,
                    recbuffer, unpacked >>

\* MPI_Reduce applies add_op to two partial results of adjacent ranks
Combine ==
    \E x \in reduce, y \in reduce :
        /\ x.hi + 1 = y.lo
        /\ reduce' = (reduce \ {x, y})
                         \cup {Partial(x.lo, y.hi, add_gmp(x.buffer, y.buffer))}
        /\ UNCHANGED << argVars, phase, exit_status, out, pi, procVars,
                        threadVars, sendbuffer, recbuffer, unpacked >>

\* the result of every rank has been combined
Reduced == {x \in reduce : x.lo = 0 /\ x.hi = num_procs - 1}

\* lines 175-187 in a process that is not the root: MPI_Reduce returns once
\* the buffer is handed over, the process frees its values and returns
ReduceReturn(p) ==
    /\ phase[p] = "AwaitingCollective"
    /\ p # 0
    /\ phase' = [phase EXCEPT ![p] = "Done"]
    /\ UNCHANGED << argVars, exit_status, out, pi, procVars, threadVars,
                    reduceVars >>

\* line 175 in the root: MPI_Reduce returns with the result in recbuffer
ReduceRootAnyRank(p) ==
    /\ phase[p] = "AwaitingCollective"
    /\ \E x \in Reduced : recbuffer' = Set(recbuffer, p, x.buffer)
    /\ phase' = [phase EXCEPT ![p] = "Assembling"]
    /\ UNCHANGED << argVars, exit_status, out, pi, procVars, threadVars,
                    sendbuffer, unpacked, reduce >>
ReduceRoot(p) ==
    /\ phase[p] = "AwaitingCollective"
    /\ p = 0
    /\ \E x \in Reduced : recbuffer' = Set(recbuffer, p, x.buffer)
    /\ phase' = [phase EXCEPT ![p] = "Assembling"]
    /\ UNCHANGED << argVars, exit_status, out, pi, procVars, threadVars,
                    sendbuffer, unpacked, reduce >>

\* line 179
Unpack(p) ==
    /\ phase[p] = "Assembling"
    /\ ~unpacked
    /\ pi' = [pi EXCEPT ![p] = PiValue(unpack_gmp(recbuffer[p]), NoScale)]
    /\ unpacked' = TRUE
    /\ UNCHANGED << argVars, phase, exit_status, out, procVars, threadVars,
                    sendbuffer, recbuffer, reduce >>

\* lines 180-187: pi = sqrt(E) * D / pi
AssembleUnordered(p) ==
    /\ phase[p] = "Assembling"
    /\ pi' = [pi EXCEPT ![p] = PiValue(@.sum, [root |-> E, times |-> D])]
    /\ phase' = [phase EXCEPT ![p] = "Done"]
    /\ UNCHANGED << argVars, exit_status, out, procVars, threadVars,
                    reduceVars >>
Assemble(p) ==
    /\ phase[p] = "Assembling"
    /\ unpacked
    /\ pi' = [pi EXCEPT ![p] = PiValue(@.sum, [root |-> E, times |-> D])]
    /\ phase' = [phase EXCEPT ![p] = "Done"]
    /\ UNCHANGED << argVars, exit_status, out, procVars, threadVars,
                    reduceVars >>

(***************************************************************************)
(* calculate_pi_gmp, after the series has returned.                        *)
(***************************************************************************)
ResultKinds == {"results", "results_csv"}
HasResult(p) == \E k \in 1 .. Len(out[p]) : out[p][k].kind \in ResultKinds

\* lines 100-107: the root prints the results
PrintResults(p) ==
    /\ phase[p] = "Done"
    /\ p = 0
    /\ ~HasResult(p)
    /\ \E print_in_csv_format \in BOOLEAN :
           out' = Output(p, << Line(IF print_in_csv_format
                                    THEN "results_csv" ELSE "results",
                                    num_iterations[p]) >>)
    /\ UNCHANGED << argVars, phase, exit_status, pi, procVars, threadVars,
                    reduceVars >>

(***************************************************************************)
(* The program.                                                            *)
(***************************************************************************)
Next ==
    \/ \E p \in Procs : PrecisionError(p)
    \/ \E p \in Procs : IterationsError(p)
    \/ \E p \in Procs : UnsupportedAlgorithm(p)
    \/ \E p \in Procs : OtherSeries(p)
    \/ \E p \in Procs : BlockAssign(p)
    \/ \E p \in Procs : ForkThreads(p)
    \/ \E p \in Procs, t \in Threads : ThreadInit(p, t)
    \/ \E p \in Procs, t \in Threads : Iterate(p, t)
    \/ \E p \in Procs, t \in Threads : EnterCritical(p, t)
    \/ \E p \in Procs, t \in Threads : Fold(p, t)
    \/ \E p \in Procs : Join(p)
    \/ \E p \in Procs : ReduceCall(p)
    \/ Combine
    \/ \E p \in Procs : ReduceReturn(p)
    \/ \E p \in Procs : ReduceRoot(p)
    \/ \E p \in Procs : Unpack(p)
    \/ \E p \in Procs : Assemble(p)
    \/ \E p \in Procs : PrintResults(p)

Spec == Init /\ [][Next]_vars

\* The processes, their threads and the collective keep being scheduled:
\* the run does not stop while a step of it is possible.
Fairness == WF_vars(Next)

FairSpec == Spec /\ Fairness

(***************************************************************************)
(* The threads of chudnovsky_algorithm_gmp as functions: what a thread     *)
(* adds up when it runs alone from its first index to the end of its       *)
(* loop, and the sums of these in the order of the thread ids and of the   *)
(* ranks.                                                                  *)
(***************************************************************************)
\* lines 115-122 and 126: the state a thread starts its loop with
ThreadStart(first, threads) ==
    [ i |-> first,
      dep_a |-> init_dep_a_gmp(first),
      dep_b |-> InitDepB(StrideExponent(threads), first),
      dep_c |-> InitDepC(first),
      local_thread_pi |-> Zero ]

\* lines 126-152: the loop, to its end
RECURSIVE RunLoop(_, _, _, _)
RunLoop(s, end, threads, mode) ==
    IF LoopRunsAt(s.i, end)
    THEN RunLoop([ i |-> NextIndex(s.i, threads),
                   dep_a |-> UpdateDepA(s.dep_a, s.i),
                   dep_b |-> UpdateDepB(s.dep_b, StrideExponent(threads)),
                   dep_c |-> UpdateDepC(s.dep_c, mode, threads),
                   local_thread_pi |->
                       chudnovsky_iteration_gmp(s.local_thread_pi, s.dep_a,
                                                s.dep_b, s.dep_c) ],
                 end, threads, mode)
    ELSE s.local_thread_pi

RECURSIVE SumSeq(_)
SumSeq(s) == IF s = << >> THEN Zero ELSE Sum(Head(s), SumSeq(Tail(s)))

\* lines 108-160: local_proc_pi of process p, the threads folded by id
ProcessSum(p, n, procs, threads, mode) ==
    SumSeq([k \in 1 .. threads |->
               RunLoop(ThreadStart(BlockStart(n, procs, p) + k - 1, threads),
                       BlockEnd(n, procs, p), threads, mode)])

\* lines 163-179: the reduced sum, the processes combined by rank
RunSum(n, procs, threads, mode) ==
    SumSeq([k \in 1 .. procs |-> ProcessSum(k - 1, n, procs, threads, mode)])

(***************************************************************************)
(* The series, as the header of chudnovsky.c states it.                    *)
(***************************************************************************)
\* (6n)! / ((n!)^3 (3n)!)
Ratio(n) == QDiv(Factorial(6 * n), QMul(QPow(Factorial(n), 3), Factorial(3 * n)))
\* (-640320)^(3n), as the exponent of -C
PowerTerm(n) == 3 * n
\* 545140134 n + 13591409
LinearTerm(n) == Lin(1, n, 0, 0)
SeriesTerm(n) == TermOf(Ratio(n), PowerTerm(n), LinearTerm(n))

\* the sum of the terms 0 .. n - 1
SeriesSum(n) == SumSeq([k \in 1 .. n |-> SetToBag({SeriesTerm(k - 1)})])

Workers == {<< p, t >> : p \in Procs, t \in Threads}
RootHasSum == 0 \in DOMAIN recbuffer
\* the selected series is the one of chudnovsky.c and the validation passes
Runs == algorithm = 3 /\ Validation = "ok"
Iterations == IterationsOf(algorithm, precision)

(***************************************************************************)
(* C1.  Whenever the validation accepts the arguments, the value the root  *)
(* receives from the reduction, before the final assembly, is the sum of   *)
(* the terms 0 .. num_iterations - 1 of the series,                        *)
(* ratio(n) * linearTerm(n) / powerTerm(n).                                *)
(***************************************************************************)
C1_ReducedSumIsSeries ==
    RootHasSum => unpack_gmp(recbuffer[0]) = SeriesSum(Iterations)

(***************************************************************************)
(* C2.  The block of process p is [p * blockSize, min((p + 1) * blockSize, *)
(* num_iterations)) with blockSize the ceiling of num_iterations /         *)
(* num_procs; thread t of p visits block_start + t, block_start + t + T,   *)
(* ... below block_end, in this order and nothing else; so no index is     *)
(* visited twice, none outside 0 .. num_iterations - 1 is visited, and     *)
(* once the threads are through every index has been visited.              *)
(***************************************************************************)
Ceiling(n, d) == IF n % d = 0 THEN n \div d ELSE (n \div d) + 1
Minimum(x, y) == IF x < y THEN x ELSE y

\* how many k >= 0 have first + k * stride < end
StridedCount(first, end, stride) ==
    IF first >= end THEN 0 ELSE Ceiling(end - first, stride)
Strided(first, end, stride) ==
    [k \in 1 .. StridedCount(first, end, stride) |-> first + (k - 1) * stride]

IsPrefix(s, r) == Len(s) <= Len(r) /\ \A k \in 1 .. Len(s) : s[k] = r[k]
LoopOver(w) == tpc[w] \in {"critical", "done"}
Visits == {<< w, k >> \in (DOMAIN visited) \X (1 .. MaxIndex) : k <= Len(visited[w])}
VisitsOf(n) == {v \in Visits : visited[v[1]][v[2]] = n}

C2_Partition ==
    /\ \A p \in DOMAIN block_start :
           LET blockSize == Ceiling(Iterations, num_procs)
           IN  /\ block_start[p] = p * blockSize
               /\ block_end[p] = Minimum((p + 1) * blockSize, Iterations)
    /\ \A w \in DOMAIN visited :
           LET owned == Strided(block_start[w[1]] + w[2], block_end[w[1]],
                                num_threads)
           IN  /\ IsPrefix(visited[w], owned)
               /\ LoopOver(w) => visited[w] = owned
    /\ \A v \in Visits : visited[v[1]][v[2]] \in 0 .. (Iterations - 1)
    /\ \A n \in 0 .. (MaxIndex + MaxThreads) : Cardinality(VisitsOf(n)) <= 1
    /\ (Runs /\ \A w \in Workers : w \in DOMAIN tpc /\ LoopOver(w)) =>
           \A n \in 0 .. (Iterations - 1) : Cardinality(VisitsOf(n)) = 1

\* every thread is through, in a run where a thread owns several indices
\* and a process has several threads and is not the only one
C2_Witness ==
    /\ Runs
    /\ num_procs > 1
    /\ num_threads > 1
    /\ \A w \in Workers : w \in DOMAIN tpc /\ LoopOver(w)
    /\ \E w \in Workers : Len(visited[w]) > 1

(***************************************************************************)
(* C3.  The state a thread is initialised with directly at its first       *)
(* index n (init_dep_a_gmp, and the pow and mul-add of dep_b and dep_c) is *)
(* the state reached from the state of index 0 by n advances of one term:  *)
(* the updates of dep_a, dep_b and dep_c of the loop with a stride of one. *)
(***************************************************************************)
RecurrenceState(a, b, lin) == [dep_a |-> a, dep_b |-> b, dep_c |-> lin]

IndexZeroState ==
    RecurrenceState(init_dep_a_gmp(0), InitDepB(StrideExponent(1), 0), InitDepC(0))

RECURSIVE Advanced(_, _)
Advanced(s, n) ==
    IF n = 0 THEN s
    ELSE LET r == Advanced(s, n - 1)
         IN  RecurrenceState(UpdateDepA(r.dep_a, n - 1),
                             UpdateDepB(r.dep_b, StrideExponent(1)),
                             UpdateDepC(r.dep_c, "exact", 1))

JustInitialised(w) == w \in DOMAIN visited /\ tpc[w] = "loop" /\ visited[w] = << >>

C3_DirectEqualsIncremental ==
    \A w \in Workers :
        JustInitialised(w) =>
            RecurrenceState(dep_a[w], dep_b[w], dep_c[w])
                = Advanced(IndexZeroState, i[w])

(***************************************************************************)
(* C4.  With one process and one thread the worker visits 0, 1, ...,       *)
(* num_iterations - 1 in ascending order and holds ratio(n), powerTerm(n)  *)
(* and linearTerm(n) when it adds the term n; and whatever num_procs and   *)
(* num_threads are, the reduced sum is the one the run of one process with *)
(* one thread produces for the same num_iterations.                        *)
(***************************************************************************)
Ascending(s) == \A k \in 1 .. Len(s) : s[k] = k - 1

C4_SequentialBoundary ==
    /\ (num_procs = 1 /\ num_threads = 1) =>
           \A w \in DOMAIN visited :
               /\ Ascending(visited[w])
               /\ LoopOver(w) => Len(visited[w]) = Iterations
               /\ (tpc[w] = "loop" /\ LoopRunsAt(i[w], block_end[w[1]])) =>
                      RecurrenceState(dep_a[w], dep_b[w], dep_c[w])
                          = RecurrenceState(Ratio(i[w]), PowerTerm(i[w]),
                                            LinearTerm(i[w]))
    /\ RootHasSum => unpack_gmp(recbuffer[0]) = RunSum(Iterations, 1, 1, "exact")

(***************************************************************************)
(* C5.  A process whose block is empty adds no term, its local_proc_pi is  *)
(* 0 throughout, it packs this 0 and enters MPI_Reduce like the others     *)
(* (it is not past the reduction, and the root has no result, without      *)
(* that), and the sum the root receives is the sum of the totals of the    *)
(* processes whose block is not empty.                                     *)
(***************************************************************************)
EmptyBlock(p) == p \in DOMAIN block_start /\ block_start[p] >= block_end[p]

C5_EmptyBlockContributesZero ==
    \A p \in Procs :
        EmptyBlock(p) =>
            /\ \A t \in Threads :
                   << p, t >> \in DOMAIN visited =>
                       /\ visited[<< p, t >>] = << >>
                       /\ local_thread_pi[<< p, t >>] = Zero
            /\ local_proc_pi[p] = Zero
            /\ p \in DOMAIN sendbuffer => sendbuffer[p] = pack_gmp(Zero)
            /\ phase[p] \in {"AwaitingCollective", "Done"} =>
                   /\ p \in DOMAIN sendbuffer
                   /\ \E x \in reduce : p \in x.lo .. x.hi
            /\ RootHasSum =>
                   /\ p \in DOMAIN sendbuffer
                   /\ unpack_gmp(recbuffer[0])
                          = SumSeq([k \in 1 .. num_procs |->
                                       IF EmptyBlock(k - 1) THEN Zero
                                       ELSE local_proc_pi[k - 1]])

\* the root has the result of a run in which a block is empty
C5_Witness == RootHasSum /\ \E p \in Procs : EmptyBlock(p)

ErrorHeads == {"precision_error", "iterations_error", "algorithm_error"}
ErrorKinds ==
    ErrorHeads \cup {"iterations_hint", "algorithm_0", "algorithm_1",
                     "algorithm_2", "blank"}
Heads(p) == {k \in 1 .. Len(out[p]) : out[p][k].kind \in ErrorHeads}
Stopped(p) == phase[p] = "Exited"

\* what a run that is stopped before the series has done, and has not done
StoppedUpFront ==
    /\ \A p \in Procs :
           /\ phase[p] \in {"Uninitialized", "Exited"}
           /\ Stopped(p) => (p \in DOMAIN exit_status /\ exit_status[p] # 0)
           /\ ~HasResult(p)
           /\ \A k \in 1 .. Len(out[p]) : out[p][k].kind \in ErrorKinds
           /\ p # 0 => out[p] = << >>
    /\ Cardinality(Heads(0)) = (IF Stopped(0) THEN 1 ELSE 0)
    /\ DOMAIN tpc = {}
    /\ DOMAIN sendbuffer = {}
    /\ reduce = {}

ConfigurationError ==
    \/ precision <= 0
    \/ algorithm \in 0 .. 3 /\ Iterations < num_threads * num_procs

C7_ConfigurationErrors ==
    ConfigurationError =>
        /\ StoppedUpFront
        /\ (Stopped(0) /\ algorithm \in 0 .. 3) =>
               out[0][1].kind = (IF precision <= 0 THEN "precision_error"
                                 ELSE "iterations_error")

\* several processes have all stopped on too few iterations
C7_Witness ==
    /\ precision > 0
    /\ algorithm = 3
    /\ Iterations < num_threads * num_procs
    /\ num_procs > 1
    /\ \A p \in Procs : Stopped(p)

(***************************************************************************)
(* C8.  With a selector outside 0 .. 3, whatever the other arguments, no   *)
(* process starts a computation (no iteration count, no block, no thread,  *)
(* no reduction), a process that has stopped has exited with a status that *)
(* is not 0, the root has then printed the message about the selector,     *)
(* once, the other processes print nothing, and no results, plain or CSV,  *)
(* are printed.                                                            *)
(***************************************************************************)
C8_UnsupportedSelector ==
    algorithm \notin 0 .. 3 =>
        /\ StoppedUpFront
        /\ Stopped(0) => out[0][1].kind = "algorithm_error"
        /\ DOMAIN num_iterations = {}
        /\ DOMAIN block_start = {}
        /\ DOMAIN local_proc_pi = {}

\* several processes have all stopped on the selector, the rest being valid
C8_Witness ==
    /\ algorithm \notin 0 .. 3
    /\ precision > 0
    /\ num_procs > 1
    /\ \A p \in Procs : Stopped(p)

(***************************************************************************)
(* C9.  Under fair scheduling, when the validation passes every process    *)
(* of the Chudnovsky run reaches Done; a process enters MPI_Reduce once    *)
(* and never again, and it is not Done without having entered it, the      *)
(* processes with an empty block included.  When the validation fails      *)
(* every process exits and none enters MPI_Reduce.                         *)
(***************************************************************************)
AllDone == \A p \in Procs : phase[p] = "Done"
AllStopped == \A p \in Procs : Stopped(p)
Rejected == algorithm \in 0 .. 3 /\ Validation # "ok"
Entered(p) == p \in DOMAIN sendbuffer

C9_Termination ==
    /\ (Runs \/ Rejected) ~> (IF Runs THEN AllDone ELSE AllStopped)
    /\ [](Runs => \A p \in Procs : phase[p] = "Done" => Entered(p))
    /\ [][\A p \in Procs : Entered(p) => ~ReduceCall(p)]_vars
    /\ [](Rejected => DOMAIN sendbuffer = {} /\ reduce = {})

\* every process of a run with an empty block is Done
C9_Witness ==
    /\ Runs
    /\ AllDone
    /\ \E p \in Procs : EmptyBlock(p)

(***************************************************************************)
(* C10.  Whatever the number of threads, when a thread adds the term of an *)
(* index n it owns, the first or a later one, its dep_a is                 *)
(* ratio(n) = (6n)! / ((n!)^3 (3n)!).                                      *)
(***************************************************************************)
AboutToAdd(w) ==
    w \in DOMAIN visited /\ tpc[w] = "loop" /\ LoopRunsAt(i[w], block_end[w[1]])

C10_RatioAtEveryOwnedIndex ==
    \A w \in Workers : AboutToAdd(w) => dep_a[w] = Ratio(i[w])

(***************************************************************************)
(* C11.  Whatever the number of threads, when a thread adds the term of an *)
(* index n it owns its dep_b is (-640320)^(3n): the pow of line 118 gives  *)
(* (-640320)^(3 n0) at the first index n0 and every pass of the loop       *)
(* multiplies it by (-640320)^(3 T).                                       *)
(***************************************************************************)
C11_PowerAtEveryOwnedIndex ==
    \A w \in Workers :
        /\ JustInitialised(w) => dep_b[w] = PowerTerm(i[w])
        /\ AboutToAdd(w) => dep_b[w] = PowerTerm(i[w])

(***************************************************************************)
(* C12.  Whatever the number of threads, when a thread adds the term of an *)
(* index n it owns its dep_c is 13591409 + 545140134 n, the products being *)
(* taken as unbounded integers: it is A + B n0 at the first index n0 and   *)
(* every pass of the loop adds B T.                                        *)
(***************************************************************************)
\* x with every int product taken as the mathematical one
Unbounded(x) == Lin(x.a, x.b, 0, 0)

C12_LinearAtEveryOwnedIndex ==
    \A w \in Workers :
        /\ JustInitialised(w) => dep_c[w] = LinearTerm(i[w])
        /\ AboutToAdd(w) =>
               /\ Unbounded(dep_c[w]) = LinearTerm(i[w])
               /\ int_mul # "wrap" => dep_c[w] = LinearTerm(i[w])

\* a thread of several is about to add the term of its second index
C12_Witness ==
    /\ num_threads > 1
    /\ \E w \in Workers : AboutToAdd(w) /\ Len(visited[w]) = 1

(***************************************************************************)
(* C13.  In every process a thread adds its local_thread_pi to             *)
(* local_proc_pi once, when its loop is over and not per term: the total   *)
(* is at any time the sum of the partial sums of the threads that have     *)
(* left the critical construct.  At most one thread is inside the critical *)
(* construct, and between its initialisation to 0 and its packing          *)
(* local_proc_pi changes only by the mpf_add of the thread that leaves the *)
(* critical construct.                                                     *)
(***************************************************************************)
ThreadsAt(p, where) ==
    {t \in Threads : << p, t >> \in DOMAIN tpc /\ tpc[<< p, t >>] = where}
InFold(p) == ThreadsAt(p, "critical")
Folded(p) == ThreadsAt(p, "done")

\* the sum of the partial sums of the threads ts of process p
RECURSIVE PartialSums(_, _)
PartialSums(p, ts) ==
    IF ts = {} THEN Zero
    ELSE LET t == CHOOSE x \in ts : TRUE
         IN  Sum(local_thread_pi[<< p, t >>], PartialSums(p, ts \ {t}))

FoldOnce ==
    \A p \in DOMAIN local_proc_pi :
        /\ Cardinality(InFold(p)) <= 1
        /\ \A t \in InFold(p) \cup Folded(p) :
               ~LoopRunsAt(i[<< p, t >>], block_end[p])
        /\ local_proc_pi[p] = PartialSums(p, Folded(p))

FoldAlone ==
    \A p \in DOMAIN local_proc_pi :
        local_proc_pi'[p] # local_proc_pi[p] =>
            /\ p \notin DOMAIN sendbuffer
            /\ \E t \in InFold(p) :
                   /\ tpc'[<< p, t >>] = "done"
                   /\ local_proc_pi'[p]
                          = Sum(local_proc_pi[p], local_thread_pi[<< p, t >>])

C13_FoldOncePerThread == [] FoldOnce /\ [][FoldAlone]_vars

\* every thread of a process of several has folded a sum that is not 0
C13_Witness ==
    /\ num_threads > 1
    /\ \E p \in Procs :
           /\ Folded(p) = Threads
           /\ \A t \in Threads : local_thread_pi[<< p, t >>] # Zero

(***************************************************************************)
(* C14.  A process packs local_proc_pi and enters MPI_Reduce only when     *)
(* every one of its num_threads threads is through its loop and has left   *)
(* the critical construct; what it packs is the sum of the partial sums of *)
(* all its threads.                                                        *)
(***************************************************************************)
PastJoin(p) ==
    phase[p] \in {"LocalReduced", "AwaitingCollective", "Assembling", "Done"}

C14_PackAfterJoin ==
    \A p \in Procs :
        (algorithm = 3 /\ (PastJoin(p) \/ p \in DOMAIN sendbuffer)) =>
            /\ Folded(p) = Threads
            /\ \A t \in Threads : ~LoopRunsAt(i[<< p, t >>], block_end[p])
            /\ local_proc_pi[p] = PartialSums(p, Threads)
            /\ p \in DOMAIN sendbuffer =>
                   sendbuffer[p] = pack_gmp(PartialSums(p, Threads))

\* a process of several threads has packed a sum that is not 0
C14_Witness ==
    /\ num_threads > 1
    /\ \E p \in DOMAIN sendbuffer :
           /\ sendbuffer[p] # pack_gmp(Zero)
           /\ \A t \in Threads : local_thread_pi[<< p, t >>] # Zero

(***************************************************************************)
(* C15.  While the threads iterate, the index, dep_a, dep_b, dep_c and     *)
(* local_thread_pi of a thread are changed by the steps of this thread     *)
(* only; a pass of the loop neither needs nor takes the lock of the        *)
(* critical construct; and what the threads of a process share in the loop *)
(* (block_start, block_end, num_threads, c) stays as it is.                *)
(***************************************************************************)
\* the variables of the parallel region that the thread w owns
OwnState(w) ==
    IF w \in DOMAIN dep_a
    THEN << i[w], dep_a[w], dep_b[w], dep_c[w], local_thread_pi[w] >>
    ELSE << >>
\* where the thread w is
Position(w) ==
    << IF w \in DOMAIN tpc THEN tpc[w] ELSE "none",
       IF w \in DOMAIN i THEN i[w] ELSE -1 >>

OwnedAlone ==
    \A w \in Workers : OwnState(w)' # OwnState(w) => Position(w)' # Position(w)

LockFreePass ==
    \A w \in DOMAIN i : i'[w] # i[w] => critical' = critical

SharedReadOnly ==
    \A p \in Procs :
        phase[p] = "ThreadsRunning" =>
            /\ block_start'[p] = block_start[p]
            /\ block_end'[p] = block_end[p]
            /\ c'[p] = c[p]
            /\ num_threads' = num_threads

\* a thread with a term to add can add it whoever holds the lock
NoLockPerTerm ==
    \A w \in Workers : AboutToAdd(w) => ENABLED Iterate(w[1], w[2])

C15_ThreadStateIsPrivate ==
    /\ [][OwnedAlone /\ LockFreePass /\ SharedReadOnly]_vars
    /\ [] NoLockPerTerm

\* a thread is about to add a later term while another thread of its
\* process, which has added terms too, is inside the critical construct
C15_Witness ==
    \E p \in Procs :
        /\ \E t \in InFold(p) : visited[<< p, t >>] # << >>
        /\ \E t \in Threads :
               AboutToAdd(<< p, t >>) /\ visited[<< p, t >>] # << >>

(***************************************************************************)
(* C16.  A process of a run that passes the validation goes through        *)
(* Uninitialized, BlockAssigned, ThreadsRunning, LocalReduced and          *)
(* AwaitingCollective in this order, never back and never twice; the root  *)
(* then goes through Assembling to Done, and a process that is not the     *)
(* root goes from AwaitingCollective to Done and is never Assembling.      *)
(***************************************************************************)
PhaseOrder ==
    << "Uninitialized", "BlockAssigned", "ThreadsRunning", "LocalReduced",
       "AwaitingCollective" >>

\* the phase that follows the phase ph in process p
Successor(p, ph) ==
    IF \E k \in 1 .. (Len(PhaseOrder) - 1) : PhaseOrder[k] = ph
    THEN PhaseOrder[1 + CHOOSE k \in 1 .. (Len(PhaseOrder) - 1) : PhaseOrder[k] = ph]
    ELSE IF ph = "AwaitingCollective" /\ p = 0 THEN "Assembling"
    ELSE "Done"

Forward ==
    \A p \in Procs :
        phase'[p] # phase[p] =>
            /\ phase[p] # "Done"
            /\ phase'[p] = Successor(p, phase[p])

C16_PhaseOrder ==
    /\ [][Runs => Forward]_vars
    /\ [](Runs => \A p \in Procs : p # 0 => phase[p] # "Assembling")
    /\ Runs ~> AllDone

\* the root and another process are Done, the root with the sum unpacked
C16_Witness ==
    /\ algorithm = 3
    /\ num_procs > 1
    /\ unpacked
    /\ AllDone

(***************************************************************************)
(* C17.  pi is written by the root only: it is 0 from its initialisation   *)
(* until the root unpacks the result of MPI_Reduce into it, the division   *)
(* sqrt(E) * D / pi comes after this unpacking and keeps the unpacked sum, *)
(* and no other process ever has or changes a value of pi.                 *)
(***************************************************************************)
Scaled(v) == v.e # NoScale

PiOfRoot ==
    /\ DOMAIN pi \subseteq {0}
    /\ 0 \in DOMAIN pi =>
           /\ ~unpacked => pi[0] = PiValue(Zero, NoScale)
           /\ unpacked => pi[0].sum = unpack_gmp(recbuffer[0])
           /\ Scaled(pi[0]) => unpacked

PiWrittenInOrder ==
    pi' # pi =>
        \/ 0 \notin DOMAIN pi /\ phase[0] = "Uninitialized" /\ phase'[0] # phase[0]
        \/ /\ phase[0] = "Assembling"
           /\ ~unpacked /\ unpacked'
           /\ ~Scaled(pi'[0])
        \/ /\ phase[0] = "Assembling"
           /\ unpacked
           /\ ~Scaled(pi[0]) /\ Scaled(pi'[0])
           /\ pi'[0].sum = pi[0].sum

C17_PiOwnedByRoot == [] PiOfRoot /\ [][PiWrittenInOrder]_vars

\* the root of several processes has divided by a sum that is not 0
C17_Witness ==
    /\ num_procs > 1
    /\ 0 \in DOMAIN pi
    /\ Scaled(pi[0])
    /\ pi[0].sum # Zero
    /\ \A p \in Procs : phase[p] = "Done"

(***************************************************************************)
(* C18.  The validation does not keep the blocks from being empty: a run   *)
(* of the Chudnovsky series with precision > 0 and num_iterations >=       *)
(* num_threads * num_procs in which the block of a process holds no index  *)
(* is not rejected.  No process of it exits or prints an error, and the    *)
(* process with the empty block goes on to its threads and to MPI_Reduce   *)
(* like the others.                                                        *)
(***************************************************************************)
\* the block that chudnovsky_algorithm_gmp gives to process p holds no index
BlockIsEmpty(p) ==
    BlockStart(Iterations, num_procs, p) >= BlockEnd(Iterations, num_procs, p)

UnevenConfiguration ==
    /\ algorithm = 3
    /\ precision > 0
    /\ Iterations >= num_threads * num_procs
    /\ \E p \in Procs : BlockIsEmpty(p)

C18_EmptyBlockPassesValidation ==
    UnevenConfiguration =>
        /\ Validation = "ok"
        /\ \A p \in Procs :
               /\ ~Stopped(p)
               /\ p \notin DOMAIN exit_status
               /\ Heads(p) = {}
               /\ p \in DOMAIN block_start => (EmptyBlock(p) <=> BlockIsEmpty(p))
               /\ (BlockIsEmpty(p) /\ phase[p] = "Done") =>
                      /\ Folded(p) = Threads
                      /\ p \in DOMAIN sendbuffer

\* a process with an empty block has run its threads and entered MPI_Reduce
C18_Witness ==
    /\ UnevenConfiguration
    /\ \E p \in Procs :
           /\ EmptyBlock(p)
           /\ Folded(p) = Threads
           /\ p \in DOMAIN sendbuffer
           /\ phase[p] = "Done"

(***************************************************************************)
(* C19.  For every number of threads that the validation accepts, the      *)
(* increment B * num_threads of line 151, an int product, is the           *)
(* mathematical product 545140134 T: it fits an int, nothing of it is lost *)
(* before it is added to dep_c.                                            *)
(***************************************************************************)
C19_StrideIncrementFitsInt ==
    \A w \in Workers :
        AboutToAdd(w) =>
            /\ IntMulB(num_threads).wraps = 0
            /\ ~IntMulB(num_threads).negative
            /\ StrideIncrement(int_mul, num_threads) = Lin(0, num_threads, 0, 0)

====
